---- MODULE Spec2Model ----
(***************************************************************************)
(* Model of the SFE_CC3000 facade (src/common.h, the SFE_CC3000.cpp part): *)
(* constructor, init, getFirmwareVersion, getMacAddress, connect, the four  *)
(* file-scope pin globals, and the platform/driver calls init makes.        *)
(*                                                                          *)
(* The Arduino HAL and the TI driver are external; they are modelled as the *)
(* calls made on them (hw.mode, hw.level, hw.spi, hw.wlan record what was   *)
(* last requested), and the status a driver query returns is an input.      *)
(* wlan_start blocks until the chip reports ready, so init is split at that *)
(* call: init(h) runs up to the call, wlan_start_return(h) is the rest.     *)
(***************************************************************************)
EXTENDS Integers, Sequences, FiniteSets, TLC

\* ---- bounds ----
MaxHandles == 2
MaxStatus == 2

Handles == 1..MaxHandles
Statuses == 0..MaxStatus

\* pin triples (int_pin, en_pin, cs_pin) handed to the constructor: both
\* interrupt pins the switch accepts, one it rejects, two enable and two
\* chip-select pins
PinTriples ==
    { <<2, 7, 10>>, <<2, 8, 10>>, <<3, 8, 9>>, <<5, 7, 10>>, <<5, 8, 9>> }
AllPins == UNION { {t[1], t[2], t[3]} : t \in PinTriples }

\* security types handed to connect (uint8_t values)
SecTypes == {0, 3}

\* ---- program constants ----
CC3000_SUCCESS == 0
SETTLE_DELAY == 100

NoPin == -1
NoInt == -1
NoHandle == 0

VARIABLES
    platform,         \* TRUE iff one of the __AVR_ATmega*__ macros is defined
    constructed,      \* which SFE_CC3000 objects exist
    ctor,             \* the pin triple each object was constructed with
    is_initialized_,  \* SFE_CC3000::is_initialized_ of each object
    g_int_pin, g_int_num, g_en_pin, g_cs_pin,
    hw,               \* pin modes, pin levels, SPI settings, driver state
    pc,               \* "idle", or "wlan_start" while init is blocked in it
    cur,              \* the object whose init is blocked in wlan_start
    lastOp, lastHandle, lastRet,   \* the last call and what it returned
    lastTrace,        \* HAL/driver calls made by the last call, in order
    lastSwitch,       \* the value init's switch examined, NoPin if not reached
    lastStatus        \* status the driver returned to the last query

globals == <<g_int_pin, g_int_num, g_en_pin, g_cs_pin>>
last == <<lastOp, lastHandle, lastRet, lastTrace, lastSwitch, lastStatus>>
vars == <<platform, constructed, ctor, is_initialized_, globals, hw, pc, cur,
          last>>

\* one HAL or driver call: name, numeric argument, symbolic argument
Act(op, a, b) == [op |-> op, a |-> a, b |-> b]

NoSpi == [begun |-> FALSE, mode |-> "unset", order |-> "unset", div |-> "unset"]

\* effect of one call on the recorded hardware/driver state
ApplyAct(s, x) ==
    CASE x.op = "pinMode" -> [s EXCEPT !.mode[x.a] = x.b]
      [] x.op = "digitalWrite" -> [s EXCEPT !.level[x.a] = x.b]
      [] x.op = "SPI.begin" -> [s EXCEPT !.spi.begun = TRUE]
      [] x.op = "SPI.setDataMode" -> [s EXCEPT !.spi.mode = x.b]
      [] x.op = "SPI.setBitOrder" -> [s EXCEPT !.spi.order = x.b]
      [] x.op = "SPI.setClockDivider" -> [s EXCEPT !.spi.div = x.b]
      [] x.op = "wlan_init" -> [s EXCEPT !.wlan = "initialized"]
      [] x.op = "wlan_start" -> [s EXCEPT !.wlan = "starting"]
      [] OTHER -> s

RECURSIVE ApplyAll(_, _)
ApplyAll(s, tr) ==
    IF tr = <<>> THEN s ELSE ApplyAll(ApplyAct(s, Head(tr)), Tail(tr))

\* init, lines 110-113: the already-initialized test
AlreadyInitialized_noGuard(h) == FALSE

AlreadyInitialized(h) == is_initialized_[h]

\* init, lines 116-117 / 131-135: the compiled platform branch
PlatformSupported_always == TRUE

PlatformSupported == platform

\* init, lines 118-130: the switch on g_int_pin
InterruptNum(pin) ==
    IF pin = 2 THEN 0 ELSE IF pin = 3 THEN 1 ELSE NoInt

\* init, lines 138-165: the calls of a bring-up, in program order
BringUpActions_lateDelay(int, en, cs) ==
    << Act("pinMode", int, "INPUT"),
       Act("pinMode", en, "OUTPUT"),
       Act("pinMode", cs, "OUTPUT"),
       Act("digitalWrite", en, "LOW"),
       Act("digitalWrite", cs, "LOW"),
       Act("SPI.begin", 0, ""),
       Act("SPI.setDataMode", 0, "SPI_MODE1"),
       Act("SPI.setBitOrder", 0, "MSBFIRST"),
       Act("SPI.setClockDivider", 0, "SPI_CLOCK_DIV2"),
       Act("wlan_init", 0, "callbacks"),
       Act("wlan_start", 0, ""),
       Act("delay", SETTLE_DELAY, "") >>

BringUpActions(int, en, cs) ==
    << Act("pinMode", int, "INPUT"),
       Act("pinMode", en, "OUTPUT"),
       Act("pinMode", cs, "OUTPUT"),
       Act("digitalWrite", en, "LOW"),
       Act("digitalWrite", cs, "LOW"),
       Act("SPI.begin", 0, ""),
       Act("SPI.setDataMode", 0, "SPI_MODE1"),
       Act("SPI.setBitOrder", 0, "MSBFIRST"),
       Act("SPI.setClockDivider", 0, "SPI_CLOCK_DIV2"),
       Act("wlan_init", 0, "callbacks"),
       Act("delay", SETTLE_DELAY, ""),
       Act("wlan_start", 0, "") >>

\* getFirmwareVersion / getMacAddress: the is_initialized_ guard
NotInitialized_noGuard(h) == FALSE

NotInitialized(h) == ~is_initialized_[h]

\* getFirmwareVersion / getMacAddress: the status comparison
StatusOk_loose(s) == s <= 1

StatusOk(s) == s = CC3000_SUCCESS

Init ==
    /\ platform \in BOOLEAN
    /\ constructed = [h \in Handles |-> FALSE]
    /\ ctor = [h \in Handles |-> <<NoPin, NoPin, NoPin>>]
    /\ is_initialized_ = [h \in Handles |-> FALSE]
    /\ g_int_pin = 0 /\ g_int_num = 0 /\ g_en_pin = 0 /\ g_cs_pin = 0
    /\ hw = [mode |-> [p \in AllPins |-> "unset"],
             level |-> [p \in AllPins |-> "unset"],
             spi |-> NoSpi,
             wlan |-> "none"]
    /\ pc = "idle" /\ cur = NoHandle
    /\ lastOp = "none" /\ lastHandle = NoHandle /\ lastRet = FALSE
    /\ lastTrace = <<>> /\ lastSwitch = NoPin /\ lastStatus = CC3000_SUCCESS

\* SFE_CC3000::SFE_CC3000(int_pin, en_pin, cs_pin)
Construct(h, int_pin, en_pin, cs_pin) ==
    /\ pc = "idle" /\ ~constructed[h]
    /\ constructed' = [constructed EXCEPT ![h] = TRUE]
    /\ ctor' = [ctor EXCEPT ![h] = <<int_pin, en_pin, cs_pin>>]
    /\ is_initialized_' = [is_initialized_ EXCEPT ![h] = FALSE]
    /\ g_int_pin' = int_pin
    /\ g_en_pin' = en_pin
    /\ g_cs_pin' = cs_pin
    /\ lastOp' = "construct" /\ lastHandle' = h /\ lastRet' = FALSE
    /\ lastTrace' = <<>> /\ lastSwitch' = NoPin
    /\ UNCHANGED <<platform, g_int_num, hw, pc, cur, lastStatus>>

\* SFE_CC3000::init(), with the pin setup moved in front of the switch
init_configFirst(h) ==
    /\ pc = "idle" /\ constructed[h]
    /\ lastOp' = "init" /\ lastHandle' = h
    /\ IF AlreadyInitialized(h)
       THEN /\ lastRet' = TRUE /\ lastTrace' = <<>> /\ lastSwitch' = NoPin
            /\ UNCHANGED <<g_int_num, hw, pc, cur>>
       ELSE IF ~PlatformSupported
       THEN /\ lastRet' = FALSE /\ lastTrace' = <<>> /\ lastSwitch' = NoPin
            /\ UNCHANGED <<g_int_num, hw, pc, cur>>
       ELSE IF InterruptNum(g_int_pin) = NoInt
       THEN /\ lastRet' = FALSE /\ lastSwitch' = g_int_pin
            /\ lastTrace' = SubSeq(BringUpActions(g_int_pin, g_en_pin, g_cs_pin), 1, 5)
            /\ hw' = ApplyAll(hw, lastTrace')
            /\ UNCHANGED <<g_int_num, pc, cur>>
       ELSE /\ g_int_num' = InterruptNum(g_int_pin)
            /\ lastSwitch' = g_int_pin
            /\ lastTrace' = BringUpActions(g_int_pin, g_en_pin, g_cs_pin)
            /\ hw' = ApplyAll(hw, lastTrace')
            /\ pc' = "wlan_start" /\ cur' = h
            /\ lastRet' = FALSE
    /\ UNCHANGED <<platform, constructed, ctor, is_initialized_,
                   g_int_pin, g_en_pin, g_cs_pin, lastStatus>>

\* SFE_CC3000::init(), up to a return or to the blocking wlan_start(0) call
init(h) ==
    /\ pc = "idle" /\ constructed[h]
    /\ lastOp' = "init" /\ lastHandle' = h
    /\ IF AlreadyInitialized(h)
       THEN /\ lastRet' = TRUE /\ lastTrace' = <<>> /\ lastSwitch' = NoPin
            /\ UNCHANGED <<g_int_num, hw, pc, cur>>
       ELSE IF ~PlatformSupported
       THEN /\ lastRet' = FALSE /\ lastTrace' = <<>> /\ lastSwitch' = NoPin
            /\ UNCHANGED <<g_int_num, hw, pc, cur>>
       ELSE IF InterruptNum(g_int_pin) = NoInt
       THEN /\ lastRet' = FALSE /\ lastTrace' = <<>>
            /\ lastSwitch' = g_int_pin
            /\ UNCHANGED <<g_int_num, hw, pc, cur>>
       ELSE /\ g_int_num' = InterruptNum(g_int_pin)
            /\ lastSwitch' = g_int_pin
            /\ lastTrace' = BringUpActions(g_int_pin, g_en_pin, g_cs_pin)
            /\ hw' = ApplyAll(hw, lastTrace')
            /\ pc' = "wlan_start" /\ cur' = h
            /\ lastRet' = FALSE
    /\ UNCHANGED <<platform, constructed, ctor, is_initialized_,
                   g_int_pin, g_en_pin, g_cs_pin, lastStatus>>

\* SFE_CC3000::init(): wlan_start(0) returns; lines 167-169
wlan_start_return(h) ==
    /\ pc = "wlan_start" /\ cur = h
    /\ hw' = [hw EXCEPT !.wlan = "started"]
    /\ is_initialized_' = [is_initialized_ EXCEPT ![h] = TRUE]
    /\ lastRet' = TRUE
    /\ pc' = "idle" /\ cur' = NoHandle
    /\ UNCHANGED <<platform, constructed, ctor, globals, lastOp, lastHandle,
                   lastTrace, lastSwitch, lastStatus>>

\* the body shared by the two driver queries; status is what the driver returns
Query(h, name, driverCall, status) ==
    /\ pc = "idle" /\ constructed[h]
    /\ lastOp' = name /\ lastHandle' = h /\ lastSwitch' = NoPin
    /\ IF NotInitialized(h)
       THEN /\ lastRet' = FALSE /\ lastTrace' = <<>>
            /\ UNCHANGED lastStatus
       ELSE /\ lastTrace' = <<Act(driverCall, 0, "")>>
            /\ lastStatus' = status
            /\ lastRet' = StatusOk(status)
    /\ UNCHANGED <<platform, constructed, ctor, is_initialized_, globals, hw,
                   pc, cur>>

\* SFE_CC3000::getFirmwareVersion(fw_ver), resetting the flag on a driver error
getFirmwareVersion_reset(h, status) ==
    /\ pc = "idle" /\ constructed[h]
    /\ lastOp' = "getFirmwareVersion" /\ lastHandle' = h
    /\ lastSwitch' = NoPin
    /\ IF NotInitialized(h)
       THEN /\ lastRet' = FALSE /\ lastTrace' = <<>>
            /\ UNCHANGED <<lastStatus, is_initialized_>>
       ELSE /\ lastTrace' = <<Act("nvmem_read_sp_version", 0, "")>>
            /\ lastStatus' = status
            /\ lastRet' = StatusOk(status)
            /\ is_initialized_' =
                   [is_initialized_ EXCEPT ![h] = StatusOk(status)]
    /\ UNCHANGED <<platform, constructed, ctor, globals, hw, pc, cur>>

\* SFE_CC3000::getFirmwareVersion(fw_ver)
getFirmwareVersion(h, status) ==
    Query(h, "getFirmwareVersion", "nvmem_read_sp_version", status)

\* SFE_CC3000::getMacAddress(mac_addr)
getMacAddress(h, status) ==
    Query(h, "getMacAddress", "nvmem_get_mac_address", status)

\* SFE_CC3000::connect(ssid, password, sec), returning the ready flag instead
connect_ready(h, sec) ==
    /\ pc = "idle" /\ constructed[h]
    /\ lastOp' = "connect" /\ lastHandle' = h /\ lastRet' = is_initialized_[h]
    /\ lastTrace' = <<>> /\ lastSwitch' = NoPin
    /\ UNCHANGED <<platform, constructed, ctor, is_initialized_, globals, hw,
                   pc, cur, lastStatus>>

\* SFE_CC3000::connect(ssid, password, sec)
connect(h, sec) ==
    /\ pc = "idle" /\ constructed[h]
    /\ lastOp' = "connect" /\ lastHandle' = h /\ lastRet' = TRUE
    /\ lastTrace' = <<>> /\ lastSwitch' = NoPin
    /\ UNCHANGED <<platform, constructed, ctor, is_initialized_, globals, hw,
                   pc, cur, lastStatus>>

Next ==
    \/ \E h \in Handles, t \in PinTriples : Construct(h, t[1], t[2], t[3])
    \/ \E h \in Handles : init(h)
    \/ \E h \in Handles : wlan_start_return(h)
    \/ \E h \in Handles, s \in Statuses : getFirmwareVersion(h, s)
    \/ \E h \in Handles, s \in Statuses : getMacAddress(h, s)
    \/ \E h \in Handles, sec \in SecTypes : connect(h, sec)

Spec == Init /\ [][Next]_vars

\* ---- vocabulary of the properties ----

Getters == {"getFirmwareVersion", "getMacAddress"}

DriverCallOf(op) ==
    IF op = "getFirmwareVersion" THEN "nvmem_read_sp_version"
    ELSE "nvmem_get_mac_address"

\* the names of the calls of a complete bring-up, in the order required
BringUpOrder ==
    << "pinMode", "pinMode", "pinMode", "digitalWrite", "digitalWrite",
       "SPI.begin", "SPI.setDataMode", "SPI.setBitOrder",
       "SPI.setClockDivider", "wlan_init", "delay", "wlan_start" >>

\* tr is a complete bring-up on the pins int, en, cs
IsFullBringUp(tr, int, en, cs) ==
    /\ Len(tr) = Len(BringUpOrder)
    /\ \A i \in 1..Len(BringUpOrder) : tr[i].op = BringUpOrder[i]
    /\ tr[1].a = int /\ tr[1].b = "INPUT"
    /\ tr[2].a = en /\ tr[2].b = "OUTPUT"
    /\ tr[3].a = cs /\ tr[3].b = "OUTPUT"
    /\ tr[4].a = en /\ tr[4].b = "LOW"
    /\ tr[5].a = cs /\ tr[5].b = "LOW"
    /\ tr[7].b = "SPI_MODE1" /\ tr[8].b = "MSBFIRST"
    /\ tr[9].b = "SPI_CLOCK_DIV2"
    /\ tr[11].a = SETTLE_DELAY

\* a step in which a call on h named op returns (init may return later, from
\* wlan_start_return)
Returns(op, h) ==
    /\ pc' = "idle" /\ lastOp' = op /\ lastHandle' = h

\* ---- C1 ----
\* C1: is_initialized_ is false right after construction; it turns true only
\* in the step that ends an init() call which made every call of the bring-up
\* and returns true; and once true it never turns false again.
C1_ReadyOnlyByBringUp ==
    [][\A h \in Handles :
          /\ (~constructed[h] /\ constructed'[h]) => ~is_initialized_'[h]
          /\ (~is_initialized_[h] /\ is_initialized_'[h]) =>
                 /\ lastOp = "init" /\ lastHandle = h
                 /\ pc = "wlan_start" /\ cur = h
                 /\ IsFullBringUp(lastTrace, g_int_pin, g_en_pin, g_cs_pin)
                 /\ Returns("init", h) /\ lastRet'
          /\ is_initialized_[h] => is_initialized_'[h]]_vars

\* a ready handle on which a later driver query has failed
C1_Witness ==
    \E h \in Handles :
        /\ is_initialized_[h] /\ lastHandle = h
        /\ lastOp = "getFirmwareVersion" /\ ~lastRet

\* ---- C2 ----
\* C2: on a handle constructed with an interrupt pin other than 2 or 3, every
\* init() returns false and is_initialized_ stays false, whatever was done
\* with other handles before.
C2_BadIntPinNeverReady ==
    \A h \in Handles :
        (constructed[h] /\ ctor[h][1] \notin {2, 3}) =>
            /\ ~is_initialized_[h]
            /\ (lastOp = "init" /\ lastHandle = h) => ~lastRet

\* ---- C3 ----
\* C3: getFirmwareVersion() and getMacAddress() on a handle whose
\* is_initialized_ is false return false, make no driver call and leave
\* is_initialized_ and the hardware as they were.
C3_NotReadyQueryFails ==
    [][\A h \in Handles, op \in Getters :
          (Returns(op, h) /\ pc = "idle" /\ ~is_initialized_[h]) =>
              /\ ~lastRet'
              /\ lastTrace' = <<>>
              /\ UNCHANGED <<is_initialized_, hw, globals>>]_vars

\* a query on a handle that is not ready, made after an init() on it failed
\* or before any init()
C3_Witness ==
    /\ lastOp \in Getters /\ lastHandle \in Handles
    /\ ~is_initialized_[lastHandle]
    /\ ~lastRet /\ lastTrace = <<>>

\* ---- C4 ----
\* C4: init() on a handle whose is_initialized_ is already true returns true
\* at once, makes no HAL or driver call, and leaves the hardware, the globals
\* and every is_initialized_ flag unchanged.
C4_InitIdempotent ==
    [][\A h \in Handles :
          (pc = "idle" /\ lastOp' = "init" /\ lastHandle' = h
             /\ is_initialized_[h]) =>
              /\ pc' = "idle" /\ lastRet'
              /\ lastTrace' = <<>>
              /\ UNCHANGED <<is_initialized_, hw, globals>>]_vars

\* a second init() on a ready handle has returned
C4_Witness ==
    /\ lastOp = "init" /\ pc = "idle" /\ lastHandle \in Handles
    /\ is_initialized_[lastHandle] /\ lastRet /\ lastTrace = <<>>

\* ---- C5 ----
\* C5: the pin an init() validates, and the pins it configures, are the pins
\* its own handle was constructed with, whatever handles were constructed in
\* between.
C5_InitUsesOwnPins ==
    (lastOp = "init" /\ lastHandle \in Handles) =>
        /\ lastSwitch # NoPin => lastSwitch = ctor[lastHandle][1]
        /\ lastTrace # <<>> =>
               IsFullBringUp(lastTrace, ctor[lastHandle][1],
                             ctor[lastHandle][2], ctor[lastHandle][3])

\* ---- C6 ----
\* C6: on a ready handle each query makes exactly its one driver call,
\* returns true iff the driver's status is 0, and leaves is_initialized_
\* unchanged.
C6_ReadyQueryForwardsStatus ==
    [][\A h \in Handles, op \in Getters :
          (Returns(op, h) /\ pc = "idle" /\ is_initialized_[h]) =>
              /\ Len(lastTrace') = 1
              /\ lastTrace'[1].op = DriverCallOf(op)
              /\ lastRet' <=> (lastStatus' = 0)
              /\ UNCHANGED <<is_initialized_, hw, globals>>]_vars

\* a ready handle whose MAC query got the non-zero status 1 and returned false
C6_Witness ==
    /\ lastOp = "getMacAddress" /\ lastHandle \in Handles
    /\ is_initialized_[lastHandle]
    /\ lastStatus = 1 /\ ~lastRet

C8_UnsupportedPlatformFails ==
    ~platform =>
        /\ \A h \in Handles : ~is_initialized_[h]
        /\ pc = "idle"
        /\ lastOp = "init" => (~lastRet /\ lastTrace = <<>>)

\* init() has failed on an unsupported platform with an allowed interrupt pin
C8_Witness ==
    /\ ~platform /\ lastOp = "init" /\ lastHandle \in Handles
    /\ ctor[lastHandle][1] \in {2, 3} /\ g_int_pin \in {2, 3}
    /\ ~lastRet

\* ---- C9 ----
\* while init() is inside wlan_start, it has made exactly the calls of the
\* bring-up, in order, on the pins it read, and its handle is not ready yet
C9_BlockedState ==
    pc = "wlan_start" =>
        /\ cur \in Handles /\ lastOp = "init" /\ lastHandle = cur
        /\ ~is_initialized_[cur]
        /\ IsFullBringUp(lastTrace, g_int_pin, g_en_pin, g_cs_pin)
        /\ hw.mode[g_en_pin] = "OUTPUT" /\ hw.mode[g_cs_pin] = "OUTPUT"
        /\ hw.level[g_en_pin] = "LOW" /\ hw.level[g_cs_pin] = "LOW"
        /\ hw.spi = [begun |-> TRUE, mode |-> "SPI_MODE1",
                     order |-> "MSBFIRST", div |-> "SPI_CLOCK_DIV2"]
        /\ hw.wlan = "starting"

\* is_initialized_ turns true only in the step in which wlan_start returns,
\* and a pin once configured is never unconfigured
C9_ReadyStep ==
    /\ \A h \in Handles :
           (~is_initialized_[h] /\ is_initialized_'[h]) =>
               /\ pc = "wlan_start" /\ cur = h
               /\ hw.wlan = "starting" /\ hw'.wlan = "started"
               /\ hw'.mode = hw.mode /\ hw'.level = hw.level
               /\ hw'.spi = hw.spi
    /\ \A p \in AllPins : hw.mode[p] # "unset" => hw'.mode[p] # "unset"

\* C9: a successful init() makes the calls pinMode x3, digitalWrite x2, the
\* four SPI calls, wlan_init, delay(100), wlan_start, once each and in this
\* order, and sets is_initialized_ only after wlan_start has returned; so a
\* handle is never ready while the pins its init() set up as enable and
\* chip select are unconfigured or while its wlan_start has not returned.
C9_BringUpOrder ==
    []C9_BlockedState /\ [][C9_ReadyStep]_vars

\* a successful init() has just returned
C9_Witness ==
    /\ lastOp = "init" /\ pc = "idle" /\ lastHandle \in Handles
    /\ lastRet /\ is_initialized_[lastHandle]
    /\ Len(lastTrace) = Len(BringUpOrder)
    /\ hw.wlan = "started"

\* ---- C10 ----
\* C10: an init() that returns false has made no HAL or driver call and has
\* left the hardware, is_initialized_ and g_int_num unchanged.
C10_FailedInitHasNoEffect ==
    [][\A h \in Handles :
          (pc = "idle" /\ Returns("init", h) /\ ~lastRet') =>
              /\ lastTrace' = <<>>
              /\ UNCHANGED <<is_initialized_, hw, globals>>]_vars

\* init() has failed in the switch on a supported platform, after another
\* handle's bring-up had configured the hardware
C10_Witness ==
    /\ platform /\ lastOp = "init" /\ pc = "idle" /\ ~lastRet
    /\ lastSwitch \notin {2, 3, NoPin}
    /\ hw.wlan = "started"
====
